---- MODULE Spec2Model ----
(***************************************************************************)
(* Model of the story-generation backend layer of storynet-subnet:         *)
(*   generators/base.py           StoryGenerator, the exception classes    *)
(*   generators/llm_generator.py  LLMGenerator (local and cloud adapters)  *)
(*   generators/loader.py         GeneratorLoader                          *)
(*                                                                         *)
(* Python mappings (dicts) are records over a fixed key universe; a key    *)
(* that is not in the mapping holds the marker Missing, so d.get(k, dflt)  *)
(* is Get(d, k, dflt).  A text is the sequence of its lines; a line is a   *)
(* pair <<label, rest>>, where label is "" for a line with no label and    *)
(* the line reads label \o ": " \o rest otherwise.  A mapping that is      *)
(* formatted into a text is held as its str() rendering.                   *)
(***************************************************************************)
EXTENDS Integers, Sequences, FiniteSets, TLC

\* ------------------------------------------------------------- bounds
\* Number of callers that may have an operation in flight at once.
MaxCalls == 2
\* Largest reading of the wall clock (time.time()).
MaxClock == 2

Calls == 1..MaxCalls

\* ------------------------------------------------------------- values
Missing == "<missing>"
Unset   == "<unset>"
PyNone  == "None"

Get(d, k, dflt) == IF d[k] = Missing THEN dflt ELSE d[k]

\* Python truthiness of a text or of a rendered mapping.
Truthy(v) == v \notin {Missing, "", "{}", PyNone}

\* ------------------------------------------------------- configuration
\* The "local" and "cloud" blocks of the generator configuration.  A block
\* that is absent reads as the empty mapping (config.get("local", {})),
\* which is the block with every key Missing.
EmptyLocal == [type |-> Missing, url |-> Missing, model |-> Missing]
EmptyCloud == [provider |-> Missing, api_key_env |-> Missing,
               model |-> Missing, endpoint |-> Missing]

_default_config ==
    [generator |->
       [mode  |-> "local",
        local |-> [type |-> "ollama", url |-> "http://localhost:11434",
                   model |-> "qwen2.5:7b"],
        cloud |-> [provider |-> "openai", api_key_env |-> "OPENAI_API_KEY",
                   model |-> "gpt-4o-mini", endpoint |-> Missing]]]

\* Configurations a YAML file may hold.  The adapter reads one block only,
\* so the files vary the block their mode selects and leave the other out.
LocalFiles ==
    { [generator |-> [mode |-> "local",
                      local |-> [type |-> t, url |-> Missing, model |-> m],
                      cloud |-> EmptyCloud]] :
        t \in {Missing, "ollama", "vllm"}, m \in {Missing, "llama3"} }

CloudFiles ==
    { [generator |-> [mode |-> md,
                      local |-> EmptyLocal,
                      cloud |-> [provider |-> p, api_key_env |-> "OPENAI_API_KEY",
                                 model |-> m, endpoint |-> Missing]]] :
        md \in {Missing, "cloud", "api"},
        p \in {Missing, "openai", "gemini", "zhipu", "anthropic"},
        m \in {Missing, "glm-4"} }

\* A cloud configuration that names its own endpoint.
ProxyFile ==
    [generator |-> [mode |-> "cloud",
                    local |-> EmptyLocal,
                    cloud |-> [provider |-> "openai",
                               api_key_env |-> "OPENAI_API_KEY",
                               model |-> Missing,
                               endpoint |-> "https://proxy.example/v1"]]]

ConfigFiles == LocalFiles \cup CloudFiles \cup {_default_config, ProxyFile}

\* What is found at the configuration path: no file, a file that is not
\* YAML, or a file holding one of the configurations above.
NoFile    == [exists |-> FALSE, parses |-> FALSE, content |-> _default_config]
Malformed == [exists |-> TRUE, parses |-> FALSE, content |-> _default_config]
Paths == {NoFile, Malformed} \cup
         { [exists |-> TRUE, parses |-> TRUE, content |-> f] : f \in ConfigFiles }

\* ------------------------------------------------------------- state
VARIABLES
    path,             \* what the configuration path holds (a member of Paths)
    environ,          \* os.environ, restricted to the credential variable
    OPENAI_AVAILABLE, \* module flags set by the guarded imports
    GEMINI_AVAILABLE,
    HTTPX_AVAILABLE,
    ctor,             \* which constructor the caller ran, and how it ended
    gen,              \* the LLMGenerator object (NoObject before construction)
    loader,           \* the GeneratorLoader object
    now,              \* the wall clock read by time.time()
    calls             \* the operations in flight, one record per slot

vars == <<path, environ, OPENAI_AVAILABLE, GEMINI_AVAILABLE, HTTPX_AVAILABLE,
          ctor, gen, loader, now, calls>>

\* os.getenv(name): None when the variable is not in the environment.
getenv(name) == IF environ[name] = Missing THEN PyNone ELSE environ[name]

\* ------------------------------------------------- LLMGenerator.__init__
NoObject == [exists |-> FALSE]

\* Attributes after StoryGenerator.__init__ and the first lines of
\* LLMGenerator.__init__; an attribute not assigned yet is Unset.
NewAdapter(config) ==
    [exists |-> TRUE,
     mode |-> Get(config, "mode", "cloud"),
     available |-> FALSE,
     initialized |-> FALSE,
     local_type |-> Unset, local_url |-> Unset, api_endpoint |-> Unset,
     provider |-> Unset, endpoint |-> Unset, api_key |-> Unset,
     zhipu_endpoint |-> Unset,
     model |-> Unset, client |-> Unset]

\* Both initialisers give [obj |-> the object, raised |-> exception or PyNone].
_init_local(self, config) ==
    LET local_type == Get(config, "type", "ollama")
        local_url  == Get(config, "url", "http://localhost:11434")
        s1 == [self EXCEPT !.local_type = local_type,
                           !.local_url = local_url,
                           !.model = Get(config, "model", "qwen2.5:7b")]
        s2 == IF local_type = "ollama"
              THEN [s1 EXCEPT !.api_endpoint = local_url \o "/api/generate"]
              ELSE [s1 EXCEPT !.api_endpoint = local_url \o "/v1/chat/completions",
                              !.client = IF OPENAI_AVAILABLE
                                         THEN "AsyncOpenAI(not-needed)"
                                         ELSE Unset]
    IN  [obj |-> [s2 EXCEPT !.available = TRUE, !.initialized = TRUE],
         raised |-> PyNone]

\* _init_cloud, were it to go on without a credential.
_init_cloud_nokeycheck(self, config) ==
    LET s1 == [self EXCEPT !.provider = Get(config, "provider", "openai"),
                           !.model = Get(config, "model", "gpt-4o-mini"),
                           !.endpoint = Get(config, "endpoint", PyNone),
                           !.api_key = getenv(Get(config, "api_key_env",
                                                  "OPENAI_API_KEY")),
                           !.available = TRUE]
    IN  IF \/ (s1.provider = "openai" /\ ~OPENAI_AVAILABLE)
           \/ (s1.provider = "gemini" /\ ~GEMINI_AVAILABLE)
           \/ (s1.provider = "zhipu" /\ ~HTTPX_AVAILABLE)
        THEN [obj |-> s1, raised |-> "GeneratorConfigError"]
        ELSE [obj |-> [s1 EXCEPT !.initialized = TRUE,
                                 !.client = IF s1.provider = "openai"
                                            THEN IF Truthy(s1.endpoint)
                                                 THEN "AsyncOpenAI(base_url)"
                                                 ELSE "AsyncOpenAI"
                                            ELSE IF s1.provider = "gemini"
                                            THEN "GenerativeModel" ELSE Unset,
                                 !.zhipu_endpoint =
                                     IF s1.provider = "zhipu"
                                     THEN "https://open.bigmodel.cn/api/paas/v4/chat/completions"
                                     ELSE Unset],
              raised |-> PyNone]

_init_cloud(self, config) ==
    LET api_key_env == Get(config, "api_key_env", "OPENAI_API_KEY")
        s1 == [self EXCEPT !.provider = Get(config, "provider", "openai"),
                           !.model = Get(config, "model", "gpt-4o-mini"),
                           !.endpoint = Get(config, "endpoint", PyNone),
                           !.api_key = getenv(api_key_env)]
        s2 == [s1 EXCEPT !.available = TRUE]
        done(s) == [obj |-> [s EXCEPT !.initialized = TRUE], raised |-> PyNone]
        fail(s) == [obj |-> s, raised |-> "GeneratorConfigError"]
    IN  IF ~Truthy(s1.api_key) THEN [obj |-> s1, raised |-> PyNone]
        ELSE IF s2.provider = "openai"
             THEN IF ~OPENAI_AVAILABLE THEN fail(s2)
                  ELSE done([s2 EXCEPT !.client =
                           IF Truthy(s2.endpoint) THEN "AsyncOpenAI(base_url)"
                           ELSE "AsyncOpenAI"])
        ELSE IF s2.provider = "gemini"
             THEN IF ~GEMINI_AVAILABLE THEN fail(s2)
                  ELSE done([s2 EXCEPT !.client = "GenerativeModel"])
        ELSE IF s2.provider = "zhipu"
             THEN IF ~HTTPX_AVAILABLE THEN fail(s2)
                  ELSE done([s2 EXCEPT !.zhipu_endpoint =
                       "https://open.bigmodel.cn/api/paas/v4/chat/completions"])
        ELSE done(s2)

LLMGenerator(config) ==
    LET self == NewAdapter(config)
    IN  IF self.mode = "local"
        THEN _init_local(self, config.local)
        ELSE _init_cloud(self, config.cloud)

\* ---------------------------------------------- GeneratorLoader.__init__
NoLoader == [exists |-> FALSE, generator |-> PyNone]

\* _load_config, were it to open the file without looking for it first.
_load_config_nofallback ==
    IF ~path.exists THEN [config |-> _default_config, raised |-> "FileNotFoundError"]
    ELSE IF ~path.parses THEN [config |-> _default_config, raised |-> "YAMLError"]
    ELSE [config |-> path.content, raised |-> PyNone]

\* _load_config: the built-in default when the path holds no file; a file
\* that does not parse raises out of the constructor.
_load_config ==
    IF ~path.exists THEN [config |-> _default_config, raised |-> PyNone]
    ELSE IF ~path.parses THEN [config |-> _default_config, raised |-> "YAMLError"]
    ELSE [config |-> path.content, raised |-> PyNone]

\* _load_generator, were it to keep the adapter whatever its available flag.
_load_generator_keep(config) ==
    LET built == LLMGenerator(config.generator)
    IN  IF built.raised # PyNone
        THEN [gen |-> NoObject, generator |-> PyNone, raised |-> "RuntimeError"]
        ELSE [gen |-> built.obj, generator |-> "gen", raised |-> PyNone]

\* _load_generator: [gen, generator, raised].  The adapter is kept only
\* when it was built without raising and reports itself available.
_load_generator(config) ==
    LET built == LLMGenerator(config.generator)
    IN  IF built.raised # PyNone
        THEN [gen |-> NoObject, generator |-> PyNone, raised |-> "RuntimeError"]
        ELSE IF built.obj.available
        THEN [gen |-> built.obj, generator |-> "gen", raised |-> PyNone]
        ELSE [gen |-> NoObject, generator |-> PyNone, raised |-> "RuntimeError"]

\* ------------------------------------------------------ prompt assembly
blank == <<"", "">>
Static(text) == <<"", text>>
Section(label, value) == <<label, value>>

\* The labels of the labelled lines of a text, in order.
RECURSIVE Sections(_)
Sections(text) ==
    IF text = <<>> THEN <<>>
    ELSE IF Head(text)[1] = "" THEN Sections(Tail(text))
    ELSE <<Head(text)[1]>> \o Sections(Tail(text))

\* StoryGenerator._build_prompt: "\n".join(prompt_parts).
StoryGenerator_build_prompt(input_data) ==
    LET user_input == Get(input_data, "user_input", "")
        blueprint  == Get(input_data, "blueprint", "{}")
        characters == Get(input_data, "characters", "{}")
        story_arc  == Get(input_data, "story_arc", "{}")
    IN  << Static("You are a creative story writer for an interactive story game."),
           Static("Generate engaging, immersive story content based on the following:"),
           blank >>
        \o (IF Truthy(user_input)
            THEN <<Section("User Request", user_input), blank>> ELSE <<>>)
        \o (IF Truthy(blueprint)
            THEN <<Section("Story Blueprint", blueprint), blank>> ELSE <<>>)
        \o (IF Truthy(characters)
            THEN <<Section("Characters", characters), blank>> ELSE <<>>)
        \o (IF Truthy(story_arc)
            THEN <<Section("Story Arc", story_arc), blank>> ELSE <<>>)
        \o << Static("Generated Story:") >>

\* LLMGenerator._build_prompt, which overrides the one above.
_build_prompt(input_data) ==
    LET user_input == Get(input_data, "user_input", "")
        blueprint  == Get(input_data, "blueprint", "{}")
    IN  << Static("You are a creative story writer."), blank >>
        \o << Section("User Request", user_input), blank >>
        \o (IF Truthy(blueprint)
            THEN <<Section("Blueprint", blueprint), blank>> ELSE <<>>)
        \o << Static("Generate engaging story content:") >>

\* LLMGenerator._build_messages: a system message and one user message.
_build_messages(input_data) ==
    LET user_input == Get(input_data, "user_input", "")
        blueprint  == Get(input_data, "blueprint", "{}")
        content ==
            << Static("Generate engaging story content based on:"), blank >>
            \o << Section("User Request", user_input), blank >>
            \o (IF Truthy(blueprint)
                THEN <<Section("Blueprint", blueprint), blank>> ELSE <<>>)
            \o << blank >>
    IN  << [role |-> "system",
            content |-> << Static("You are a creative story writer for an interactive story game.") >>],
           [role |-> "user", content |-> content] >>

\* ------------------------------------------------------------ requests
\* A GenerationRequest.  chapter_ids is read by no prompt builder and is
\* left out.  Mappings are held as their str() rendering.
TextValues == {Missing, "", "a quest"}
DictValues == {Missing, "{}", "{'k': 'v'}"}

AllRequests ==
    [user_input : TextValues, blueprint : DictValues,
     characters : DictValues, story_arc : DictValues]

EmptyRequest ==
    [user_input |-> Missing, blueprint |-> Missing,
     characters |-> Missing, story_arc |-> Missing]

\* The requests the generate calls of the state machine are made with.
Requests ==
    { EmptyRequest,
      [EmptyRequest EXCEPT !.user_input = ""],
      [EmptyRequest EXCEPT !.user_input = "a quest"],
      [EmptyRequest EXCEPT !.characters = "{'k': 'v'}"],
      [EmptyRequest EXCEPT !.user_input = "a quest", !.blueprint = "{}"],
      [user_input |-> "a quest", blueprint |-> "{'k': 'v'}",
       characters |-> "{'k': 'v'}", story_arc |-> "{'k': 'v'}"] }

\* ------------------------------------------------------------ transport
\* What the far end answers to one outbound request: a usable reply, an
\* HTTP error status, no answer at all (connection error, timeout), a body
\* that is not the provider's envelope at all, or a well-formed envelope
\* with status 200 that lacks the generated text.
Replies == {"ok", "http_error", "network_error", "bad_body", "no_text"}

Raise(exc, msg) == [kind |-> "raise", exc |-> exc, msg |-> msg]
Send(how, target, model, text) ==
    [kind |-> "send",
     request |-> [how |-> how, target |-> target, model |-> model, text |-> text]]

\* The text of an outbound request that carries the story request: the
\* prompt, or the content of the user message.
UserText(request) ==
    IF request.how = "httpx.post(prompt)" \/ request.how = "generate_content"
    THEN request.text
    ELSE request.text[2].content

\* _generate_ollama, up to its await.
_generate_ollama(self, input_data) ==
    IF ~HTTPX_AVAILABLE THEN Raise("GenerationError", "httpx not installed")
    ELSE Send("httpx.post(prompt)", self.api_endpoint, self.model,
              _build_prompt(input_data))

\* _generate_openai_compatible, up to its await: reading self.client raises
\* AttributeError when _init_local never assigned it.
_generate_openai_compatible(self, input_data) ==
    LET messages == _build_messages(input_data)
    IN  IF self.client = Unset THEN Raise("AttributeError", "client")
        ELSE Send("chat.completions.create", self.client, self.model, messages)

\* _generate_openai, up to its await.
_generate_openai(self, input_data) ==
    LET messages == _build_messages(input_data)
    IN  IF self.client = Unset THEN Raise("AttributeError", "client")
        ELSE Send("chat.completions.create", self.client, self.model, messages)

\* _generate_gemini, up to its await.
_generate_gemini(self, input_data) ==
    LET prompt == _build_prompt(input_data)
    IN  IF self.client = Unset THEN Raise("AttributeError", "client")
        ELSE Send("generate_content", self.client, self.model, prompt)

\* _generate_zhipu, up to its await.
_generate_zhipu(self, input_data) ==
    LET messages == _build_messages(input_data)
    IN  IF ~HTTPX_AVAILABLE THEN Raise("NameError", "httpx")
        ELSE IF self.zhipu_endpoint = Unset
        THEN Raise("AttributeError", "zhipu_endpoint")
        ELSE Send("httpx.post(messages)", self.zhipu_endpoint, self.model, messages)

_generate_local(self, input_data) ==
    IF self.local_type = "ollama"
    THEN _generate_ollama(self, input_data)
    ELSE _generate_openai_compatible(self, input_data)

_generate_cloud(self, input_data) ==
    IF self.provider = "openai" THEN _generate_openai(self, input_data)
    ELSE IF self.provider = "gemini" THEN _generate_gemini(self, input_data)
    ELSE IF self.provider = "zhipu" THEN _generate_zhipu(self, input_data)
    ELSE Raise("GenerationError", "Unsupported provider")

\* The dispatch of generate: the path taken is the local one exactly when
\* mode is "local".
Dispatch(self, input_data) ==
    IF self.mode = "local"
    THEN _generate_local(self, input_data)
    ELSE _generate_cloud(self, input_data)

\* The rest of a provider path, after its await: the reply is turned into
\* the generated text, or an exception is raised.
Text(content) == [kind |-> "text", content |-> content]

ParseReply(request, reply) ==
    IF request.how = "httpx.post(prompt)"
    THEN CASE reply = "ok"            -> Text("a story")
           [] reply = "http_error"    -> Raise("HTTPStatusError", "status")
           [] reply = "network_error" -> Raise("ConnectError", "connect")
           [] reply = "bad_body"      -> Raise("JSONDecodeError", "body")
           [] reply = "no_text"       -> Text("")
    ELSE IF request.how = "httpx.post(messages)"
    THEN CASE reply = "ok"            -> Text("a story")
           [] reply = "http_error"    -> Raise("HTTPStatusError", "status")
           [] reply = "network_error" -> Raise("ConnectError", "connect")
           [] reply = "bad_body"      -> Raise("JSONDecodeError", "body")
           [] reply = "no_text"       -> Raise("KeyError", "choices")
    ELSE IF request.how = "chat.completions.create"
    THEN CASE reply = "ok"            -> Text("a story")
           [] reply = "http_error"    -> Raise("APIStatusError", "status")
           [] reply = "network_error" -> Raise("APIConnectionError", "connect")
           [] reply = "bad_body"      -> Raise("APIResponseValidationError", "body")
           [] reply = "no_text"       -> Raise("IndexError", "choices")
    ELSE CASE reply = "ok"            -> Text("a story")
           [] reply = "http_error"    -> Raise("GoogleAPIError", "status")
           [] reply = "network_error" -> Raise("GoogleAPIError", "connect")
           [] reply = "bad_body"      -> Raise("GoogleAPIError", "body")
           [] reply = "no_text"       -> Raise("ValueError", "text")

\* Wrap, were the except clause to let the exception through.
Wrap_reraise(e) == e

\* The except clause of generate: every exception of the try block leaves
\* as GenerationError, its message embedding the cause.
Wrap(e) == Raise("GenerationError", "Generation failed: " \o e.msg)

\* GenerationResult, were it to report the path taken instead of the
\* configured mode string.
GenerationResult_pathtag(self, content, generation_time) ==
    [generated_content |-> content,
     model |-> self.model,
     mode |-> IF self.mode = "local" THEN "local" ELSE "cloud",
     generation_time |-> generation_time,
     metadata |-> [type |-> IF self.mode = "local" THEN self.local_type
                            ELSE self.provider]]

\* The mapping generate returns.
GenerationResult(self, content, generation_time) ==
    [generated_content |-> content,
     model |-> self.model,
     mode |-> self.mode,
     generation_time |-> generation_time,
     metadata |-> [type |-> IF self.mode = "local" THEN self.local_type
                            ELSE self.provider]]

Return(value) == [kind |-> "return", value |-> value]

\* ------------------------------------------------- the other operations
get_mode(self) == self.mode

get_model_info(self) ==
    IF self.mode = "local"
    THEN [name |-> self.model, version |-> PyNone, provider |-> self.local_type,
          parameters |-> [url |-> self.local_url]]
    ELSE [name |-> self.model, version |-> PyNone, provider |-> self.provider,
          parameters |-> [url |-> Missing]]

health_check(self) == self.available

\* The empty mapping GeneratorLoader.get_model_info gives with no generator.
EmptyMapping ==
    [name |-> Missing, version |-> Missing, provider |-> Missing,
     parameters |-> [url |-> Missing]]

\* ------------------------------------------------------- state machine
\* One slot of `calls`: the operation it runs, the object it was called
\* on, where it stands, and what it has read, sent and returned so far.
Idle ==
    [pc |-> "idle", op |-> PyNone, on |-> PyNone, input_data |-> EmptyRequest,
     start_time |-> 0, sent |-> <<>>, reply |-> PyNone, ret |-> [kind |-> "none"]]

Done(op, on, input_data, sent, reply, ret) ==
    [pc |-> "done", op |-> op, on |-> on, input_data |-> input_data,
     start_time |-> 0, sent |-> sent, reply |-> reply, ret |-> ret]

NotBuilt == [called |-> PyNone, raised |-> PyNone]

Init ==
    /\ path \in Paths
    /\ environ \in [OPENAI_API_KEY : {Missing, "", "sk-1"}]
    /\ OPENAI_AVAILABLE \in BOOLEAN
    /\ GEMINI_AVAILABLE \in BOOLEAN
    /\ HTTPX_AVAILABLE \in BOOLEAN
    /\ ctor = NotBuilt
    /\ gen = NoObject
    /\ loader = NoLoader
    /\ now = 0
    /\ calls = [c \in Calls |-> Idle]

Env == <<path, environ, OPENAI_AVAILABLE, GEMINI_AVAILABLE, HTTPX_AVAILABLE>>
Objects == <<ctor, gen, loader>>

\* GeneratorLoader(config_path): _load_config, then _load_generator.
GeneratorLoader_init ==
    /\ ctor = NotBuilt
    /\ LET cfg == _load_config
       IN  IF cfg.raised # PyNone
           THEN /\ ctor' = [called |-> "GeneratorLoader", raised |-> cfg.raised]
                /\ UNCHANGED <<gen, loader>>
           ELSE LET got == _load_generator(cfg.config)
                IN  /\ ctor' = [called |-> "GeneratorLoader", raised |-> got.raised]
                    /\ loader' = [exists |-> got.raised = PyNone,
                                  generator |-> got.generator]
                    /\ gen' = got.gen
    /\ UNCHANGED <<Env, now, calls>>

\* LLMGenerator(config), built by the caller from the generator section of
\* a configuration file that parses.
LLMGenerator_init ==
    /\ ctor = NotBuilt
    /\ path.exists /\ path.parses
    /\ LET built == LLMGenerator(path.content.generator)
       IN  /\ ctor' = [called |-> "LLMGenerator", raised |-> built.raised]
           /\ gen' = IF built.raised = PyNone THEN built.obj ELSE NoObject
    /\ UNCHANGED <<Env, loader, now, calls>>

\* self, were generate to take the adapter out of service once a call has
\* failed.
SelfAfterGenerate_trip(self, ret) ==
    IF ret.kind = "raise" THEN [self EXCEPT !.available = FALSE] ELSE self

\* self as a step of generate leaves it, `ret` being what the step has
\* returned or raised so far: generate and the methods it calls read the
\* attributes of self and assign none.
SelfAfterGenerate(self, ret) == self

\* generate, from its entry to its await (or to the exception that ends it
\* before any request goes out).
GenerateStart(c, on, input_data) ==
    /\ IF ~gen.available
       THEN calls' = [calls EXCEPT ![c] =
               Done("generate", on, input_data, <<>>, PyNone,
                    Raise("GenerationError", "LLM Generator not available"))]
       ELSE LET start_time == now
                step == Dispatch(gen, input_data)
            IN  IF step.kind = "raise"
                THEN calls' = [calls EXCEPT ![c] =
                        Done("generate", on, input_data, <<>>, PyNone,
                             Wrap(step))]
                ELSE calls' = [calls EXCEPT ![c] =
                        [pc |-> "awaiting", op |-> "generate", on |-> on,
                         input_data |-> input_data, start_time |-> start_time,
                         sent |-> <<step.request>>, reply |-> PyNone,
                         ret |-> [kind |-> "none"]]]
    /\ gen' = SelfAfterGenerate(gen, calls'[c].ret)

\* generate, from its await to its return or to its except clause, when
\* the far end has answered `reply`.
GenerateFinish(c, reply) ==
    LET call == calls[c]
        got  == ParseReply(call.sent[Len(call.sent)], reply)
        generation_time == now - call.start_time
    IN  /\ calls' = [calls EXCEPT ![c] =
               Done("generate", call.on, call.input_data, call.sent, reply,
                    IF got.kind = "raise" THEN Wrap(got)
                    ELSE Return(GenerationResult(gen, got.content,
                                                 generation_time)))]
        /\ gen' = SelfAfterGenerate(gen, calls'[c].ret)

\* LLMGenerator.generate(input_data)
LLMGenerator_generate(c) ==
    /\ gen.exists
    /\ calls[c].pc = "idle"
    /\ \E input_data \in Requests : GenerateStart(c, "adapter", input_data)
    /\ UNCHANGED <<Env, ctor, loader, now>>

\* GeneratorLoader.generate(input_data)
GeneratorLoader_generate(c) ==
    /\ loader.exists
    /\ calls[c].pc = "idle"
    /\ \E input_data \in Requests :
         IF loader.generator = PyNone
         THEN /\ calls' = [calls EXCEPT ![c] =
                    Done("generate", "loader", input_data, <<>>, PyNone,
                         Raise("RuntimeError", "No generator loaded"))]
              /\ UNCHANGED gen
         ELSE GenerateStart(c, "loader", input_data)
    /\ UNCHANGED <<Env, ctor, loader, now>>

\* The far end answers the request of call c, and the call runs on.
TransportReply(c) ==
    /\ calls[c].pc = "awaiting"
    /\ \E reply \in Replies : GenerateFinish(c, reply)
    /\ UNCHANGED <<Env, ctor, loader, now>>

\* LLMGenerator.get_mode / get_model_info / health_check
LLMGenerator_get_mode(c) ==
    /\ gen.exists
    /\ calls[c].pc = "idle"
    /\ calls' = [calls EXCEPT ![c] =
          Done("get_mode", "adapter", EmptyRequest, <<>>, PyNone, Return(get_mode(gen)))]
    /\ UNCHANGED <<Env, Objects, now>>

LLMGenerator_get_model_info(c) ==
    /\ gen.exists
    /\ calls[c].pc = "idle"
    /\ calls' = [calls EXCEPT ![c] =
          Done("get_model_info", "adapter", EmptyRequest, <<>>, PyNone,
               Return(get_model_info(gen)))]
    /\ UNCHANGED <<Env, Objects, now>>

LLMGenerator_health_check(c) ==
    /\ gen.exists
    /\ calls[c].pc = "idle"
    /\ calls' = [calls EXCEPT ![c] =
          Done("health_check", "adapter", EmptyRequest, <<>>, PyNone,
               Return(health_check(gen)))]
    /\ UNCHANGED <<Env, Objects, now>>

\* GeneratorLoader.get_mode / get_model_info / health_check
GeneratorLoader_get_mode(c) ==
    /\ loader.exists
    /\ calls[c].pc = "idle"
    /\ calls' = [calls EXCEPT ![c] =
          Done("get_mode", "loader", EmptyRequest, <<>>, PyNone,
               Return(IF loader.generator = PyNone THEN "none"
                      ELSE get_mode(gen)))]
    /\ UNCHANGED <<Env, Objects, now>>

GeneratorLoader_get_model_info(c) ==
    /\ loader.exists
    /\ calls[c].pc = "idle"
    /\ calls' = [calls EXCEPT ![c] =
          Done("get_model_info", "loader", EmptyRequest, <<>>, PyNone,
               Return(IF loader.generator = PyNone THEN EmptyMapping
                      ELSE get_model_info(gen)))]
    /\ UNCHANGED <<Env, Objects, now>>

GeneratorLoader_health_check(c) ==
    /\ loader.exists
    /\ calls[c].pc = "idle"
    /\ calls' = [calls EXCEPT ![c] =
          Done("health_check", "loader", EmptyRequest, <<>>, PyNone,
               Return(IF loader.generator = PyNone THEN FALSE
                      ELSE health_check(gen)))]
    /\ UNCHANGED <<Env, Objects, now>>

\* The caller takes the outcome of call c; the slot is free again.
Collect(c) ==
    /\ calls[c].pc = "done"
    /\ calls' = [calls EXCEPT ![c] = Idle]
    /\ UNCHANGED <<Env, Objects, now>>

\* Time passes.
Tick ==
    /\ now < MaxClock
    /\ now' = now + 1
    /\ UNCHANGED <<Env, Objects, calls>>

\* The operations caller c may run.
Operation(c) ==
    \/ LLMGenerator_generate(c)
    \/ GeneratorLoader_generate(c)
    \/ TransportReply(c)
    \/ LLMGenerator_get_mode(c)
    \/ LLMGenerator_get_model_info(c)
    \/ LLMGenerator_health_check(c)
    \/ GeneratorLoader_get_mode(c)
    \/ GeneratorLoader_get_model_info(c)
    \/ GeneratorLoader_health_check(c)
    \/ Collect(c)

\* One caller, which runs one operation at a time, in every environment.
Next ==
    \/ GeneratorLoader_init
    \/ LLMGenerator_init
    \/ Tick
    \/ Operation(1)

Spec == Init /\ [][Next]_vars

\* ------------------------------------------------ the prompt builders
\* The builders taken alone: the default loader has been constructed, and
\* the one caller applies a builder to any request.
InitPrompt ==
    /\ path = NoFile
    /\ environ = [OPENAI_API_KEY |-> Missing]
    /\ OPENAI_AVAILABLE = TRUE
    /\ GEMINI_AVAILABLE = TRUE
    /\ HTTPX_AVAILABLE = TRUE
    /\ ctor = [called |-> "GeneratorLoader", raised |-> PyNone]
    /\ gen = (LET self == NewAdapter(_default_config.generator)
              IN  _init_local(self, _default_config.generator.local).obj)
    /\ loader = [exists |-> TRUE, generator |-> "gen"]
    /\ now = 0
    /\ calls = [c \in Calls |-> Idle]

\* self._build_prompt(input_data) on an LLMGenerator
LLMGenerator_build_prompt(c) ==
    /\ calls[c].pc = "idle"
    /\ \E input_data \in AllRequests :
          calls' = [calls EXCEPT ![c] =
              Done("_build_prompt", "adapter", input_data, <<>>, PyNone,
                   Return(_build_prompt(input_data)))]
    /\ UNCHANGED <<Env, Objects, now>>

\* self._build_messages(input_data) on an LLMGenerator
LLMGenerator_build_messages(c) ==
    /\ calls[c].pc = "idle"
    /\ \E input_data \in AllRequests :
          calls' = [calls EXCEPT ![c] =
              Done("_build_messages", "adapter", input_data, <<>>, PyNone,
                   Return(_build_messages(input_data)))]
    /\ UNCHANGED <<Env, Objects, now>>

\* StoryGenerator._build_prompt(self, input_data), the inherited builder
StoryGenerator_prompt(c) ==
    /\ calls[c].pc = "idle"
    /\ \E input_data \in AllRequests :
          calls' = [calls EXCEPT ![c] =
              Done("StoryGenerator._build_prompt", "base", input_data, <<>>,
                   PyNone, Return(StoryGenerator_build_prompt(input_data)))]
    /\ UNCHANGED <<Env, Objects, now>>

NextPrompt ==
    \/ LLMGenerator_build_prompt(1)
    \/ LLMGenerator_build_messages(1)
    \/ StoryGenerator_prompt(1)
    \/ Collect(1)

SpecPrompt == InitPrompt /\ [][NextPrompt]_vars

\* --------------------------------------------- several callers at once
\* Coroutines of one event loop: a generate call runs from its entry to
\* its await in one step and from the reply to its end in another, and
\* between the two any other call may start, run or end.  get_mode,
\* get_model_info and health_check hold no await and run in one step.
\* The deployments: no file, or a file naming one backend and no model.
ConcurrentPaths ==
    {NoFile} \cup
    { [exists |-> TRUE, parses |-> TRUE, content |-> f] :
        f \in { g \in LocalFiles \cup CloudFiles :
                  /\ g.generator.mode \in {"local", "cloud"}
                  /\ g.generator.local.model = Missing
                  /\ g.generator.cloud.model = Missing } }

\* The requests and the replies of the concurrent callers.
ConcurrentRequests == {EmptyRequest, [EmptyRequest EXCEPT !.user_input = "a quest"]}
ConcurrentReplies == {"ok", "http_error", "no_text"}

InitConcurrent ==
    /\ Init
    /\ path \in ConcurrentPaths
    /\ environ.OPENAI_API_KEY # ""

\* The operations caller c may run, on those requests and replies.
ConcurrentOperation(c) ==
    \/ LLMGenerator_generate(c) /\ calls'[c].input_data \in ConcurrentRequests
    \/ GeneratorLoader_generate(c) /\ calls'[c].input_data \in ConcurrentRequests
    \/ TransportReply(c) /\ calls'[c].reply \in ConcurrentReplies
    \/ LLMGenerator_get_mode(c)
    \/ LLMGenerator_get_model_info(c)
    \/ LLMGenerator_health_check(c)
    \/ GeneratorLoader_get_mode(c)
    \/ GeneratorLoader_get_model_info(c)
    \/ GeneratorLoader_health_check(c)
    \/ Collect(c)

\* Any caller runs any operation at any time.
NextConcurrent ==
    \/ GeneratorLoader_init
    \/ LLMGenerator_init
    \/ \E c \in Calls : ConcurrentOperation(c)

SpecConcurrent == InitConcurrent /\ [][NextConcurrent]_vars

\* ================================================================ claims
\* The generate calls that have ended, and the configuration in force.
Ended(c) == calls[c].pc = "done" /\ calls[c].op = "generate"
Failed(c) == calls[c].ret.kind = "raise"
Succeeded(c) == calls[c].ret.kind = "return"

\* A GenerationResult with every field set.
Complete(r) ==
    /\ r.generated_content \in {"a story", ""}
    /\ r.model \notin {Unset, Missing, PyNone}
    /\ r.mode \notin {Unset, Missing, PyNone}
    /\ r.generation_time \in Int
    /\ r.metadata.type \notin {Unset, Missing, PyNone}

\* C1: every generate call on an adapter ends either with a complete
\* GenerationResult or with GenerationError, on every configuration and
\* every request.  A call the transport or the parsing of the reply failed
\* (an error status, no answer, a body that is not the envelope), and a
\* call that could not reach the transport (no client object, unsupported
\* provider, adapter unavailable), ends with GenerationError and no other
\* exception type, and a result is returned only for a reply that was read.
C1_ResultOrGenerationError ==
    \A c \in Calls :
        (Ended(c) /\ gen.exists) =>
            /\ \/ Succeeded(c) /\ Complete(calls[c].ret.value)
               \/ Failed(c) /\ calls[c].ret.exc = "GenerationError"
            /\ (calls[c].reply \in {"http_error", "network_error", "bad_body"}
                \/ calls[c].sent = <<>>)
                   => Failed(c) /\ calls[c].ret.exc = "GenerationError"
            /\ Succeeded(c) =>
                   Len(calls[c].sent) = 1 /\ calls[c].reply \in {"ok", "no_text"}

\* A call whose request was answered with an HTTP error status has ended.
C1_Witness ==
    \E c \in Calls :
        /\ Ended(c) /\ calls[c].on = "adapter"
        /\ calls[c].reply = "http_error"
        /\ Failed(c) /\ calls[c].ret.exc = "GenerationError"

\* The adapter is built by its own constructor from a configuration that
\* takes the cloud path while the credential variable is unset or empty.
CloudWithoutKey ==
    /\ ctor.called = "LLMGenerator"
    /\ path.content.generator.mode # "local"
    /\ ~Truthy(getenv(Get(path.content.generator.cloud, "api_key_env",
                          "OPENAI_API_KEY")))

\* C2: a cloud adapter built while the credential variable is unset or
\* empty is built without raising, whatever the provider; its available
\* flag is false; and each of its generate calls ends with GenerationError
\* and has sent nothing to the transport.
C2_MissingCredential ==
    CloudWithoutKey =>
        /\ ctor.raised = PyNone
        /\ gen.exists /\ ~gen.available
        /\ \A c \in Calls :
              (calls[c].op = "generate" /\ calls[c].pc # "idle") =>
                  /\ calls[c].pc = "done"
                  /\ Failed(c) /\ calls[c].ret.exc = "GenerationError"
                  /\ calls[c].sent = <<>>

\* Such an adapter, for a provider the adapter has no path for, has had a
\* generate call end.
C2_Witness ==
    /\ CloudWithoutKey
    /\ gen.exists /\ gen.provider = "anthropic"
    /\ \E c \in Calls : Ended(c) /\ Failed(c)

\* C3: GeneratorLoader construction either raises, or ends holding one
\* adapter whose available flag is true; it raises exactly when the file
\* does not parse, the adapter's construction raises, or the adapter is not
\* available.  On a constructed loader every operation gives what the
\* adapter's operation gives: generate never raises "No generator loaded",
\* get_mode never returns "none", get_model_info never the empty mapping.
C3_LoaderHoldsAvailableAdapter ==
    /\ ctor.called = "GeneratorLoader" =>
          /\ \/ ctor.raised # PyNone /\ ~loader.exists /\ loader.generator = PyNone
             \/ /\ ctor.raised = PyNone /\ loader.exists
                /\ loader.generator = "gen" /\ gen.exists /\ gen.available
          /\ ctor.raised # PyNone <=>
                \/ path.exists /\ ~path.parses
                \/ LLMGenerator(_load_config.config.generator).raised # PyNone
                \/ ~LLMGenerator(_load_config.config.generator).obj.available
    /\ ctor.called # "GeneratorLoader" => ~loader.exists
    /\ \A c \in Calls :
          (calls[c].pc = "done" /\ calls[c].on = "loader") =>
              /\ loader.generator = "gen"
              /\ calls[c].op = "generate" =>
                    \/ Failed(c) /\ calls[c].ret.exc = "GenerationError"
                    \/ /\ Succeeded(c)
                       /\ calls[c].ret.value =
                            GenerationResult(gen, calls[c].ret.value.generated_content,
                                             calls[c].ret.value.generation_time)
              /\ calls[c].op = "get_mode" =>
                    /\ calls[c].ret.value # "none"
                    /\ calls[c].ret.value = get_mode(gen)
              /\ calls[c].op = "get_model_info" =>
                    /\ calls[c].ret.value # EmptyMapping
                    /\ calls[c].ret.value = get_model_info(gen)
              /\ calls[c].op = "health_check" =>
                    calls[c].ret.value = health_check(gen)

\* A loader built from a cloud configuration has answered get_mode.
C3_Witness ==
    /\ ctor.called = "GeneratorLoader" /\ loader.exists
    /\ gen.mode # "local"
    /\ \E c \in Calls :
          /\ calls[c].pc = "done" /\ calls[c].on = "loader"
          /\ calls[c].op = "get_mode"

\* The configuration GeneratorLoader resolved, and what it asks for.
Resolved == _load_config.config.generator
ResolvedLocal == Get(Resolved, "mode", "cloud") = "local"
ResolvedType == Get(Resolved.local, "type", "ollama")
ResolvedProvider == Get(Resolved.cloud, "provider", "openai")

UnsupportedProviderSelected ==
    ~ResolvedLocal /\ ResolvedProvider \notin {"openai", "gemini", "zhipu"}

NeededLibraryMissing ==
    IF ResolvedLocal
    THEN IF ResolvedType = "ollama" THEN ~HTTPX_AVAILABLE ELSE ~OPENAI_AVAILABLE
    ELSE \/ ResolvedProvider = "openai" /\ ~OPENAI_AVAILABLE
         \/ ResolvedProvider = "gemini" /\ ~GEMINI_AVAILABLE
         \/ ResolvedProvider = "zhipu" /\ ~HTTPX_AVAILABLE

\* C4: GeneratorLoader construction raises whenever the resolved
\* configuration selects a cloud provider other than openai, gemini and
\* zhipu, or the transport library of the selected path is not installed;
\* so a constructed loader holds no generator whose every generate call
\* fails before the transport for a reason known at construction.
C4_ConstructionFailuresFatal ==
    ctor.called = "GeneratorLoader" =>
        /\ (UnsupportedProviderSelected \/ NeededLibraryMissing)
               => ctor.raised # PyNone
        /\ loader.exists =>
               \A input_data \in Requests :
                   Dispatch(gen, input_data).kind = "send"

\* C5: with no file at the configuration path GeneratorLoader construction
\* does not raise, whatever credentials are set and whatever libraries are
\* installed; the adapter is the default one (local, ollama, qwen2.5:7b);
\* get_mode() returns "local" and health_check() returns true.
C5_MissingFileDefault ==
    (ctor.called = "GeneratorLoader" /\ ~path.exists) =>
        /\ ctor.raised = PyNone
        /\ loader.exists /\ loader.generator = "gen"
        /\ gen.mode = "local" /\ gen.local_type = "ollama"
        /\ gen.model = "qwen2.5:7b"
        /\ \A c \in Calls :
              (calls[c].pc = "done" /\ calls[c].on = "loader") =>
                  /\ calls[c].op = "get_mode" => calls[c].ret.value = "local"
                  /\ calls[c].op = "health_check" => calls[c].ret.value = TRUE

\* No file, no credential, no optional library, and health_check answered.
C5_Witness ==
    /\ ctor.called = "GeneratorLoader" /\ ~path.exists
    /\ environ.OPENAI_API_KEY = Missing
    /\ ~OPENAI_AVAILABLE /\ ~GEMINI_AVAILABLE /\ ~HTTPX_AVAILABLE
    /\ \E c \in Calls :
          /\ calls[c].pc = "done" /\ calls[c].on = "loader"
          /\ calls[c].op = "health_check"

\* C6: the result of every successful generate call has
\* generation_time >= 0, a mode equal to what get_mode() returns and a
\* model equal to the name get_model_info() reports, whatever the request.
\* (The readings of time.time() do not decrease: Tick only adds.)
C6_ResultFields ==
    \A c \in Calls :
        (Ended(c) /\ Succeeded(c)) =>
            /\ calls[c].ret.value.generation_time >= 0
            /\ calls[c].ret.value.mode = get_mode(gen)
            /\ calls[c].ret.value.model = get_model_info(gen).name

\* A successful call on the cloud path of an adapter whose mode string is
\* neither "local" nor "cloud", during which time has passed.
C6_Witness ==
    \E c \in Calls :
        /\ Ended(c) /\ Succeeded(c)
        /\ gen.mode = "api"
        /\ calls[c].input_data.user_input = "a quest"
        /\ calls[c].ret.value.generation_time > 0

\* C7: the mode tag is one of "local" and "cloud" for every configuration
\* an adapter can be built from: get_mode() and the mode field of every
\* GenerationResult are in that set, and the tag names the path taken.
C7_ModeTagClosedSet ==
    /\ gen.exists =>
          /\ get_mode(gen) \in {"local", "cloud"}
          /\ get_mode(gen) = "local" <=> gen.local_type # Unset
          /\ get_mode(gen) = "cloud" <=> gen.provider # Unset
    /\ \A c \in Calls :
          (Ended(c) /\ Succeeded(c)) =>
              calls[c].ret.value.mode \in {"local", "cloud"}

\* The requests with an empty or absent user_input and no other field.
EmptyInput(input_data) ==
    /\ ~Truthy(input_data.user_input)
    /\ input_data.blueprint = Missing
    /\ input_data.characters = Missing
    /\ input_data.story_arc = Missing

\* C8: for a request with an empty or absent user_input and no other
\* field, the text handed to the transport has no section besides the
\* static preamble and the trailing cue (no "User Request" section), and
\* the call is dispatched whenever a call with another request would be.
C8_EmptyRequestPrompt ==
    \A c \in Calls :
        (calls[c].op = "generate" /\ calls[c].pc # "idle"
         /\ EmptyInput(calls[c].input_data) /\ gen.available) =>
            /\ calls[c].sent # <<>> =>
                   Sections(UserText(calls[c].sent[1])) = <<>>
            /\ calls[c].sent = <<>> =>
                   \A other \in Requests : Dispatch(gen, other).kind = "raise"

\* The request field a section label stands for.
FieldOf(label) ==
    CASE label = "User Request" -> "user_input"
      [] label \in {"Blueprint", "Story Blueprint"} -> "blueprint"
      [] label = "Characters" -> "characters"
      [] label = "Story Arc" -> "story_arc"
      [] OTHER -> label

FieldOrder == <<"user_input", "blueprint", "characters", "story_arc">>

\* The fields of a request that are present and not empty, in the fixed order.
PresentFields(input_data) ==
    LET present(f) == Truthy(input_data[f])
    IN  SelectSeq(FieldOrder, present)

\* The fields a text has a section for, in the order of the sections.
SectionFields(text) ==
    [i \in 1..Len(Sections(text)) |-> FieldOf(Sections(text)[i])]

\* C9: the prompt LLMGenerator builds for its non-chat paths, and the user
\* message it builds for its chat paths, hold one labelled section for each
\* of user_input, blueprint, characters and story_arc that is present and
\* not empty, in that order, and no section for an absent or empty field.
C9_SectionsOfPresentFields ==
    \A c \in Calls :
        /\ (calls[c].pc = "done" /\ calls[c].op = "_build_prompt") =>
              SectionFields(calls[c].ret.value) = PresentFields(calls[c].input_data)
        /\ (calls[c].pc = "done" /\ calls[c].op = "_build_messages") =>
              SectionFields(calls[c].ret.value[2].content)
                  = PresentFields(calls[c].input_data)

\* The provider paths an adapter has.
Supported(self) ==
    self.mode = "local" \/ self.provider \in {"openai", "gemini", "zhipu"}

\* C10: a generate call issues exactly one outbound request when the
\* adapter is available and its provider path is supported, and none when
\* the adapter is unavailable or the provider unsupported; a call that has
\* ended after a transport failure has issued that one request only and
\* ended with GenerationError.
C10_OneRequestPerCall ==
    \A c \in Calls :
        (calls[c].op = "generate" /\ calls[c].pc # "idle" /\ gen.exists) =>
            /\ Len(calls[c].sent) <= 1
            /\ (gen.available /\ Supported(gen)) => Len(calls[c].sent) = 1
            /\ (~gen.available \/ ~Supported(gen)) => Len(calls[c].sent) = 0
            /\ calls[c].reply \in {"http_error", "network_error", "bad_body"} =>
                   /\ Len(calls[c].sent) = 1
                   /\ Failed(c) /\ calls[c].ret.exc = "GenerationError"

\* The objects as their constructor leaves them, recomputed from the
\* environment the constructor read.
AsConstructed ==
    IF ctor.called = "GeneratorLoader"
    THEN LET got == _load_generator(_load_config.config)
         IN  <<got.gen, [exists |-> TRUE, generator |-> got.generator]>>
    ELSE <<LLMGenerator(path.content.generator).obj, NoLoader>>

\* What a generate call returned or raised, the measured duration aside.
Outcome(c) ==
    IF Succeeded(c)
    THEN Return([calls[c].ret.value EXCEPT !.generation_time = 0])
    ELSE calls[c].ret

\* The adapter and the loader hold what construction left in them.
C11_AsConstructed ==
    (ctor.called # PyNone /\ ctor.raised = PyNone) => <<gen, loader>> = AsConstructed

\* Two answers of the same read-only operation are the same answer, and
\* the answer read from the constructed adapter.
C11_SameAnswers ==
    \A c, d \in Calls :
        ( /\ calls[c].pc = "done" /\ calls[d].pc = "done"
          /\ calls[c].op # "generate" /\ calls[c].op = calls[d].op )
        => /\ calls[c].ret = calls[d].ret
           /\ calls[c].ret.value =
                 CASE calls[c].op = "get_mode" -> get_mode(AsConstructed[1])
                   [] calls[c].op = "get_model_info" -> get_model_info(AsConstructed[1])
                   [] calls[c].op = "health_check" -> health_check(AsConstructed[1])

\* Two generate calls given the same request and the same reply end the
\* same way, whatever ran between the entry and the end of either.
C11_IndependentOutcomes ==
    \A c, d \in Calls :
        ( /\ Ended(c) /\ Ended(d)
          /\ calls[c].input_data = calls[d].input_data
          /\ calls[c].reply = calls[d].reply )
        => Outcome(c) = Outcome(d)

\* C11: once a constructor has returned, no step of any operation changes
\* the adapter or the loader, however many generate calls are in flight
\* at once and however each of them ends: mode, local type or provider,
\* model, endpoint, available, initialized and the loader's generator
\* handle stay as construction left them.  Hence get_mode, get_model_info
\* and health_check give the same answers throughout, and the way a
\* generate call ends depends on its own request and reply only.
C11_ReadOnlyAfterConstruction ==
    /\ [][ctor # NotBuilt => Objects' = Objects]_vars
    /\ [](C11_AsConstructed /\ C11_SameAnswers /\ C11_IndependentOutcomes)

\* A generate call has failed on an error status while another generate
\* call of the same loader is still waiting for its reply.
C11_Witness ==
    /\ loader.exists
    /\ \E c, d \in Calls :
         /\ c # d
         /\ Ended(c) /\ Failed(c) /\ calls[c].reply = "http_error"
         /\ calls[d].pc = "awaiting"

====
